---- MODULE Spec2Model ----
(***************************************************************************)
(* Model of the dashboard frontend's session-derivation helpers            *)
(* (frontend/src/utils/helpers.ts) and of the version monitor hook         *)
(* (frontend/src/hooks/useVersion.ts).                                     *)
(*                                                                         *)
(* Text is a sequence of characters, each a string naming one UTF-16 code   *)
(* unit ("a", "A", and "SIGMA", "sigma", "fsigma" for the Greek letters     *)
(* U+03A3, U+03C3, U+03C2), so that lower-casing, joining, substring search *)
(* and property-key classification are computed and not assumed.  The      *)
(* JavaScript value null is the token sequence `null`, which no text       *)
(* equals because "null" is not a character.                               *)
(***************************************************************************)
EXTENDS Integers, Sequences, FiniteSets, TLC

VARIABLES
    sessions,     \* helpers: the Session[] argument
    processes,    \* splitActivePrevious: the Record<string, ProcessInfo> argument
    starred,      \* sortStarredFirst: the Set<string> argument
    filter,       \* filterSessions: the search string
    now,          \* splitActivePrevious: the value Date.now() returns
    called,       \* helpers: which function has been applied ("none" before the call)
    ret,          \* helpers: what the call returned (or that it threw)
    mounted,      \* useVersion: the effect's `mounted` flag (the hook is mounted)
    versionInfo,  \* useVersion: the versionInfo state
    updating,     \* useVersion: the updating state
    timer,        \* useVersion: the 30-minute interval is set
    requests,     \* useVersion: the fetchVersion() calls made, each "pending", "resolved" or "rejected"
    lastInfo,     \* history: <<payload>> of the version fetch that resolved last, <<>> if none did
    cycles,       \* useVersion: the doUpdate() invocations
    escaped,      \* the operations whose promise rejected with nobody catching it
    disconnected, \* useDisconnect: the server is not answering
    retrySeconds, \* useDisconnect: seconds until the next probe
    probing,      \* useDisconnect: a liveness probe awaits its answer
    failures,     \* useDisconnect: the probes that failed in a row
    probesSent,   \* history: how many probes have been issued
    connEvent,    \* history: the last thing the connectivity monitor did
    theme,        \* useTheme: the theme state
    storage,      \* localStorage: the values under dash-mode and dash-palette
    docAttrs,     \* document.documentElement: data-mode and data-palette
    themeCall     \* history: the last call of the theme hook and the state it ran in

helperVars == <<sessions, processes, starred, filter, now, called, ret>>

versionVars == <<mounted, versionInfo, updating, timer, requests, lastInfo, cycles, escaped>>

connVars == <<disconnected, retrySeconds, probing, failures, probesSent, connEvent>>

themeVars == <<theme, storage, docAttrs, themeCall>>

otherVars == <<connVars, themeVars>>

vars == <<helperVars, versionVars, otherVars>>

\* ------------------------------------------------------------------ bounds

MaxSessions == 3

\* ------------------------------------------------------------- JS values

null == <<"null">>

\* JavaScript truthiness of a string-or-null value: null and "" are falsy.
Truthy(t) == t # null /\ t # <<>>

\* An array-valued field that may be missing: mcp_servers || [].
Array(items) == [isNull |-> FALSE, items |-> items]

NullArray == [isNull |-> TRUE, items |-> <<>>]

OrEmptyArray(a) == IF a.isNull THEN <<>> ELSE a.items

NaN == [nan |-> TRUE, v |-> 0]

Num(n) == [nan |-> FALSE, v |-> n]

\* a >= b on JavaScript numbers: every comparison with NaN is false.
GreaterEq(a, b) == ~a.nan /\ ~b.nan /\ a.v >= b.v

\* Session ids are the backend's unique identifiers; the i-th id of the pool.
IdPool == <<"s1", "s2", "s3", "s4", "s5", "s6">>

Ids == {IdPool[i] : i \in 1..MaxSessions}

\* A Session with every field the helpers read.  updated_at is a string: either
\* a date string denoting the instant `ms`, or text that is no date.
Session(id, summary, repository, branch, cwd, group, intent, mcp, upd) ==
    [id |-> id, summary |-> summary, repository |-> repository, branch |-> branch,
     cwd |-> cwd, group |-> group, intent |-> intent, mcp_servers |-> mcp,
     updated_at |-> upd]

DateString(ms) == [isDate |-> TRUE, ms |-> ms]

NotADate == [isDate |-> FALSE, ms |-> 0]

\* new Date(s).getTime(): the instant, or NaN for an unparseable string.
DateGetTime(s) == IF s.isDate THEN Num(s.ms) ELSE NaN

\* Array.prototype.sort with comparator values c[i][j] = compare(arr[i], arr[j]):
\* the sort is stable, each element moves left past the elements that compare
\* greater than it.
ArraySort(arr, c) ==
    LET n == Len(arr)
        Insert(sorted, k) ==
            LET m == Len(sorted)
                p == CHOOSE p \in 0..m :
                        /\ \A q \in (p + 1)..m : c[sorted[q]][k] > 0
                        /\ (p = 0 \/ c[sorted[p]][k] <= 0)
            IN  SubSeq(sorted, 1, p) \o <<k>> \o SubSeq(sorted, p + 1, m)
        order[k \in 0..n] == IF k = 0 THEN <<>> ELSE Insert(order[k - 1], k)
    IN  [i \in 1..n |-> arr[order[n][i]]]

\* ------------------------------------------------ splitActivePrevious

FiveDays == 5 * 24 * 60 * 60 * 1000

\* processes[s.id] in the condition of line 113: an entry is a ProcessInfo
\* object, which is truthy; a missing key reads undefined.
HasProcess(procs, id) == id \in DOMAIN procs

IsRecentMutant(s, fiveDaysAgo) == GreaterEq(DateGetTime(s.updated_at), Num(fiveDaysAgo + 1))

IsRecent(s, fiveDaysAgo) == GreaterEq(DateGetTime(s.updated_at), Num(fiveDaysAgo))

IsActiveMutant(s, procs) == HasProcess(procs, s.id) /\ s.updated_at.isDate

IsActive(s, procs) == HasProcess(procs, s.id)

splitActivePrevious(ss, procs, dateNow) ==
    LET fiveDaysAgo == dateNow - FiveDays
        loop[k \in 0..Len(ss)] ==
            IF k = 0 THEN [active |-> <<>>, previous |-> <<>>]
            ELSE LET acc == loop[k - 1]
                     s == ss[k]
                 IN  IF IsActive(s, procs)
                        THEN [acc EXCEPT !.active = Append(@, s)]
                     ELSE IF IsRecent(s, fiveDaysAgo)
                        THEN [acc EXCEPT !.previous = Append(@, s)]
                     ELSE acc
    IN  loop[Len(ss)]

\* ------------------------------------------------------- groupSessions

General == <<"G", "e", "n", "e", "r", "a", "l">>

Digits == <<"0", "1", "2", "3", "4", "5", "6", "7", "8", "9">>

IsDigit(c) == \E i \in 1..10 : Digits[i] = c

DigitValue(c) == (CHOOSE i \in 1..10 : Digits[i] = c) - 1

\* The number a string of digits denotes.
DecimalValue(key) ==
    LET v[k \in 0..Len(key)] == IF k = 0 THEN 0 ELSE 10 * v[k - 1] + DigitValue(key[k])
    IN  v[Len(key)]

\* A property key is an array index when it is the canonical decimal form of an
\* integer in 0..2^32-2: digits only, no leading zero.  (Keys here have at most
\* nine digits, all below 2^32-1.)
IsArrayIndex(key) ==
    /\ Len(key) \in 1..9
    /\ \A i \in 1..Len(key) : IsDigit(key[i])
    /\ (Len(key) > 1 => key[1] # "0")

\* Properties every object literal inherits from Object.prototype.
ObjectPrototypeKeys ==
    {<<"c", "o", "n", "s", "t", "r", "u", "c", "t", "o", "r">>,
     <<"t", "o", "S", "t", "r", "i", "n", "g">>,
     <<"v", "a", "l", "u", "e", "O", "f">>,
     <<"_", "_", "p", "r", "o", "t", "o", "_", "_">>}

\* An object is its own properties, <<key, value>> pairs in creation order.
HasOwn(obj, key) == \E i \in 1..Len(obj) : obj[i][1] = key

OwnIndex(obj, key) == CHOOSE i \in 1..Len(obj) : obj[i][1] = key

\* What obj[key] reads: "own" (the array stored under key), "inherited" (a
\* member of Object.prototype: not nullish, and no array), or "undefined".
GetKind(obj, key) ==
    IF HasOwn(obj, key) THEN "own"
    ELSE IF key \in ObjectPrototypeKeys THEN "inherited"
    ELSE "undefined"

\* s.group || "General"
GroupKey(s) == IF Truthy(s.group) THEN s.group ELSE General

\* (groups[g] ??= []).push(s): creates the property when obj[g] is nullish, and
\* throws a TypeError when obj[g] is an inherited member, which has no push.
PushToGroup(acc, s) ==
    LET g == GroupKey(s)
        kind == GetKind(acc.groups, g)
    IN  IF acc.threw THEN acc
        ELSE IF kind = "own"
            THEN [acc EXCEPT !.groups[OwnIndex(acc.groups, g)][2] = Append(@, s)]
        ELSE IF kind = "undefined"
            THEN [acc EXCEPT !.groups = Append(@, <<g, <<s>> >>)]
        ELSE [acc EXCEPT !.threw = TRUE]

CreationOrderKeys(obj) == [i \in 1..Len(obj) |-> obj[i][1]]

OwnPropertyKeysMutant(obj) == [i \in 1..Len(obj) |-> obj[i][1]]

\* The order in which Object.entries lists own properties: array-index keys
\* in ascending numeric order, then the other keys in creation order.
OwnPropertyKeys(obj) ==
    LET keys == CreationOrderKeys(obj)
        n == Len(keys)
        rank(i) == IF IsArrayIndex(keys[i]) THEN DecimalValue(keys[i]) ELSE 0
        before(i, j) ==
            IF IsArrayIndex(keys[i]) /\ IsArrayIndex(keys[j]) THEN rank(i) < rank(j)
            ELSE IF IsArrayIndex(keys[i]) # IsArrayIndex(keys[j]) THEN IsArrayIndex(keys[i])
            ELSE i < j
        place(i) == 1 + Cardinality({j \in 1..n : before(j, i)})
    IN  [p \in 1..n |-> keys[CHOOSE i \in 1..n : place(i) = p]]

ObjectEntries(obj) ==
    LET keys == OwnPropertyKeys(obj)
    IN  [p \in 1..Len(keys) |-> obj[OwnIndex(obj, keys[p])]]

GroupCompareMutant(a, b) == Len(a[2]) - Len(b[2])

\* (a, b) => b[1].length - a[1].length
GroupCompare(a, b) == Len(b[2]) - Len(a[2])

groupSessions(ss) ==
    LET loop[k \in 0..Len(ss)] ==
            IF k = 0 THEN [threw |-> FALSE, groups |-> <<>>]
            ELSE PushToGroup(loop[k - 1], ss[k])
        done == loop[Len(ss)]
        entries == ObjectEntries(done.groups)
        n == Len(entries)
    IN  IF done.threw THEN [threw |-> TRUE, value |-> <<>>]
        ELSE [threw |-> FALSE,
              value |-> ArraySort(entries,
                            [i \in 1..n |-> [j \in 1..n |-> GroupCompare(entries[i], entries[j])]])]

\* ------------------------------------------------------ filterSessions

UpperCase ==
    <<"A", "B", "C", "D", "E", "F", "G", "H", "I", "J", "K", "L", "M",
      "N", "O", "P", "Q", "R", "S", "T", "U", "V", "W", "X", "Y", "Z">>

LowerCase ==
    <<"a", "b", "c", "d", "e", "f", "g", "h", "i", "j", "k", "l", "m",
      "n", "o", "p", "q", "r", "s", "t", "u", "v", "w", "x", "y", "z">>

IsUpper(c) == \E i \in 1..26 : UpperCase[i] = c

\* Letters that have a case, and characters that case mapping looks through.
IsCased(c) ==
    \/ \E i \in 1..26 : UpperCase[i] = c \/ LowerCase[i] = c
    \/ c \in {"SIGMA", "sigma", "fsigma"}

IsCaseIgnorable(c) == c \in {".", ":", "^"}

\* The Final_Sigma condition of Unicode: a cased letter comes before (case-ignorable
\* characters apart) and none comes after.
IsFinalSigma(t, i) ==
    /\ \E j \in 1..(i - 1) :
          IsCased(t[j]) /\ \A k \in (j + 1)..(i - 1) : IsCaseIgnorable(t[k])
    /\ ~\E j \in (i + 1)..Len(t) :
          IsCased(t[j]) /\ \A k \in (i + 1)..(j - 1) : IsCaseIgnorable(t[k])

\* The lower-case mapping of the i-th character of t: capital sigma maps to
\* final sigma in word-final position and to sigma elsewhere.
LowerChar(t, i) ==
    IF t[i] = "SIGMA" THEN (IF IsFinalSigma(t, i) THEN "fsigma" ELSE "sigma")
    ELSE IF IsUpper(t[i]) THEN LowerCase[CHOOSE k \in 1..26 : UpperCase[k] = t[i]]
    ELSE t[i]

\* String.prototype.toLowerCase
toLowerCase(t) == [i \in 1..Len(t) |-> LowerChar(t, i)]

\* Array.prototype.join(" ")
JoinWithSpace(parts) ==
    LET j[k \in 0..Len(parts)] ==
            IF k = 0 THEN <<>>
            ELSE IF k = 1 THEN parts[1]
            ELSE j[k - 1] \o <<" ">> \o parts[k]
    IN  j[Len(parts)]

\* String.prototype.includes
Includes(hay, needle) ==
    \E i \in 0..(Len(hay) - Len(needle)) : SubSeq(hay, i + 1, i + Len(needle)) = needle

\* The haystack of lines 84-95: the fields, the falsy ones dropped, joined by
\* spaces, lower-cased.
Haystack(s) ==
    LET fields == <<s.summary, s.repository, s.branch, s.cwd, s.group, s.intent>>
                      \o OrEmptyArray(s.mcp_servers)
    IN  toLowerCase(JoinWithSpace(SelectSeq(fields, Truthy)))

filterSessions(ss, f) ==
    IF ~Truthy(f) THEN ss
    ELSE LET lower == toLowerCase(f)
             Keep(s) == Includes(Haystack(s), lower)
         IN  SelectSeq(ss, Keep)

\* ---------------------------------------------------- sortStarredFirst

StarCompareMutant(a, b, stars) ==
    (IF a.id \in stars THEN 1 ELSE 0) - (IF b.id \in stars THEN 1 ELSE 0)

StarCompare(a, b, stars) ==
    (IF b.id \in stars THEN 1 ELSE 0) - (IF a.id \in stars THEN 1 ELSE 0)

sortStarredFirst(ss, stars) ==
    ArraySort(ss, [i \in 1..Len(ss) |-> [j \in 1..Len(ss) |-> StarCompare(ss[i], ss[j], stars)]])

\* ----------------------------------------------------------- useVersion

MaxChecks == 3

MaxUpdates == 1

MaxProbes == 2

InitialVersion == <<"1", ".", "0", ".", "0">>

\* useState's initial value, lines 9-13.
InitialVersionInfo == [current |-> InitialVersion, latest |-> null, update_available |-> FALSE]

\* What GET /api/version may answer.
Payloads ==
    {[current |-> InitialVersion, latest |-> <<"2", ".", "0", ".", "0">>, update_available |-> TRUE],
     [current |-> InitialVersion, latest |-> InitialVersion, update_available |-> FALSE]}

PollMs == 2000

TimeoutMs == 90000

\* A doUpdate() invocation: where its async body stands, whether its poll
\* interval is set, the interval callbacks run, the probes awaiting an answer,
\* and what it has done.
UnusedCycle ==
    [phase |-> "unused", pollActive |-> FALSE, ticks |-> 0, inflight |-> 0,
     timedOut |-> FALSE, okSeen |-> FALSE, reloaded |-> FALSE]

OnResolvedMutant(info, isMounted, cur) == IF isMounted THEN cur ELSE info

\* .then((info) => { if (mounted) setVersionInfo(info); })
OnResolved(info, isMounted, cur) == IF isMounted THEN info ELSE cur

\* .catch(() => {}): the state stays as it is.
OnRejected(cur) == cur

\* Whether the promise chain of doCheck ends in a catch (line 22).
DoCheckCatches == TRUE

\* setUpdating(v): React drops a state update of an unmounted component.
SetUpdating(v) == updating' = IF mounted THEN v ELSE updating

\* doCheck(), run by the 30-minute interval (the call on mount is in Init).
CheckTick ==
    /\ timer
    /\ Len(requests) < MaxChecks
    /\ requests' = Append(requests, "pending")
    /\ UNCHANGED <<mounted, versionInfo, updating, timer, lastInfo, cycles, escaped, helperVars, otherVars>>

FetchVersionResolves(r, info) ==
    /\ requests[r] = "pending"
    /\ requests' = [requests EXCEPT ![r] = "resolved"]
    /\ versionInfo' = OnResolved(info, mounted, versionInfo)
    /\ lastInfo' = <<info>>
    /\ UNCHANGED <<mounted, updating, timer, cycles, escaped, helperVars, otherVars>>

FetchVersionRejects(r) ==
    /\ requests[r] = "pending"
    /\ requests' = [requests EXCEPT ![r] = "rejected"]
    /\ versionInfo' = OnRejected(versionInfo)
    /\ escaped' = IF DoCheckCatches THEN escaped ELSE escaped \cup {"doCheck"}
    /\ UNCHANGED <<mounted, updating, timer, lastInfo, cycles, helperVars, otherVars>>

\* The effect's cleanup, line 26.  The poll intervals of doUpdate are not its.
Unmount ==
    /\ mounted
    /\ mounted' = FALSE
    /\ timer' = FALSE
    /\ UNCHANGED <<versionInfo, updating, requests, lastInfo, cycles, escaped, helperVars, otherVars>>

\* doUpdate(), lines 30-31: setUpdating(true), then await triggerUpdate().
DoUpdate(c) ==
    /\ mounted
    /\ cycles[c].phase = "unused"
    /\ \A d \in 1..(c - 1) : cycles[d].phase # "unused"
    /\ SetUpdating(TRUE)
    /\ cycles' = [cycles EXCEPT ![c].phase = "triggering"]
    /\ UNCHANGED <<mounted, versionInfo, timer, requests, lastInfo, escaped, helperVars, otherVars>>

\* triggerUpdate() resolved: lines 33-34 and 49 record the start and set the interval.
TriggerResolves(c) ==
    /\ cycles[c].phase = "triggering"
    /\ cycles' = [cycles EXCEPT ![c].phase = "polling", ![c].pollActive = TRUE]
    /\ UNCHANGED <<mounted, versionInfo, updating, timer, requests, lastInfo, escaped, helperVars, otherVars>>

\* triggerUpdate() rejected: the await throws and doUpdate's promise rejects.
TriggerRejects(c) ==
    /\ cycles[c].phase = "triggering"
    /\ cycles' = [cycles EXCEPT ![c].phase = "failed"]
    /\ escaped' = escaped \cup {"doUpdate"}
    /\ UNCHANGED <<mounted, versionInfo, updating, timer, requests, lastInfo, helperVars, otherVars>>

\* Date.now() - start > 90000, line 35.
IsTimedOut(elapsed) == elapsed > TimeoutMs

\* The interval callback, lines 34-41: the k-th run comes k periods after the
\* start, or a little later (an interval fires late, never early).
PollTick(c, jitter) ==
    LET k == cycles[c].ticks + 1 IN
    /\ cycles[c].pollActive
    /\ IF IsTimedOut(k * PollMs + jitter)
          THEN /\ cycles' = [cycles EXCEPT ![c].ticks = k, ![c].pollActive = FALSE,
                                           ![c].timedOut = TRUE]
               /\ SetUpdating(FALSE)
          ELSE /\ cycles[c].inflight < MaxProbes
               /\ cycles' = [cycles EXCEPT ![c].ticks = k, ![c].inflight = @ + 1]
               /\ UNCHANGED updating
    /\ UNCHANGED <<mounted, versionInfo, timer, requests, lastInfo, escaped, helperVars, otherVars>>

StopsOnOkMutant(ok) == FALSE

\* if (r.ok) { clearInterval(poll); ... }
StopsOnOk(ok) == ok

\* fetch("/api/server-info") answered, lines 41-45.
ProbeAnswered(c, ok) ==
    /\ cycles[c].inflight > 0
    /\ cycles' = [cycles EXCEPT ![c].inflight = @ - 1,
                                ![c].pollActive = IF StopsOnOk(ok) THEN FALSE ELSE @,
                                ![c].okSeen = @ \/ ok,
                                ![c].reloaded = @ \/ ok]
    /\ UNCHANGED <<mounted, versionInfo, updating, timer, requests, lastInfo, escaped, helperVars, otherVars>>

\* fetch("/api/server-info") rejected: caught at lines 46-48.
ProbeFails(c) ==
    /\ cycles[c].inflight > 0
    /\ cycles' = [cycles EXCEPT ![c].inflight = @ - 1]
    /\ UNCHANGED <<mounted, versionInfo, updating, timer, requests, lastInfo, escaped, helperVars, otherVars>>

\* -------------------------------------------------------- useDisconnect
\* The hook's source is not part of the sources at hand: the monitor below
\* follows the specification's section 4.6.  The overlay is DisconnectOverlay.tsx.

MaxFailures == 3

MaxConnProbes == 6

\* The countdown a failed probe starts ("5-second countdown, auto-retry").
InitialRetrySeconds == 5

OverlayRenderedMutant(isDisconnected) == TRUE

\* if (!disconnected) return null;
OverlayRendered(isDisconnected) == isDisconnected

ShowsCountdownMutant(seconds) == seconds >= 0

\* retrySeconds > 0 ? "Retrying in Ns" : "Retrying now"
ShowsCountdown(seconds) == seconds > 0

\* What the overlay shows in its retry line; "hidden" when it renders nothing.
RetryLine(isDisconnected, seconds) ==
    IF ~OverlayRendered(isDisconnected) THEN "hidden"
    ELSE IF ShowsCountdown(seconds) THEN "Retrying in Ns"
    ELSE "Retrying now"

\* History of the monitor: the last event, the state it happened in, and
\* whether a probe has failed while already disconnected.
ConnEvent(kind) ==
    [kind |-> kind, wasDisconnected |-> disconnected, retryWas |-> retrySeconds,
     restarted |-> connEvent.restarted \/ (kind = "fail" /\ disconnected)]

\* The fixed-interval liveness probe, while connected.
IntervalProbe ==
    /\ ~disconnected
    /\ ~probing
    /\ probesSent < MaxConnProbes
    /\ probing' = TRUE
    /\ probesSent' = probesSent + 1
    /\ connEvent' = ConnEvent("probe")
    /\ UNCHANGED <<disconnected, retrySeconds, failures, themeVars, helperVars, versionVars>>

\* A probe answered with success: connected, countdown and failure counter reset.
LivenessProbeSucceeds ==
    /\ probing
    /\ probing' = FALSE
    /\ disconnected' = FALSE
    /\ retrySeconds' = 0
    /\ failures' = 0
    /\ connEvent' = ConnEvent("ok")
    /\ UNCHANGED <<probesSent, themeVars, helperVars, versionVars>>

\* A probe failed (network error, non-success status or timeout): disconnected,
\* the countdown starts over.
LivenessProbeFails ==
    /\ probing
    /\ failures < MaxFailures
    /\ probing' = FALSE
    /\ disconnected' = TRUE
    /\ retrySeconds' = InitialRetrySeconds
    /\ failures' = failures + 1
    /\ connEvent' = ConnEvent("fail")
    /\ UNCHANGED <<probesSent, themeVars, helperVars, versionVars>>

\* One second of the countdown; at 0 the probe is issued again at once.
CountdownTick ==
    /\ disconnected
    /\ ~probing
    /\ retrySeconds > 0
    /\ retrySeconds' = retrySeconds - 1
    /\ IF retrySeconds' = 0
          THEN /\ probesSent < MaxConnProbes
               /\ probing' = TRUE
               /\ probesSent' = probesSent + 1
          ELSE UNCHANGED <<probing, probesSent>>
    /\ connEvent' = ConnEvent("tick")
    /\ UNCHANGED <<disconnected, failures, themeVars, helperVars, versionVars>>

\* ------------------------------------------------------------- useTheme

Modes == {"dark", "light"}

Palettes == {"default", "pink", "ocean", "forest", "sunset", "mono", "neon", "slate", "rosegold"}

\* localStorage.getItem(key) || fallback: a missing key reads null, and null
\* and "" are falsy.
GetItemOr(store, key, fallback) ==
    IF key \in DOMAIN store /\ store[key] # "" THEN store[key] ELSE fallback

\* localStorage.setItem(key, value), and setAttribute(name, value) alike.
SetItem(store, key, value) ==
    [k \in DOMAIN store \cup {key} |-> IF k = key THEN value ELSE store[k]]

readTheme(store) ==
    [mode |-> GetItemOr(store, "dash-mode", "dark"),
     palette |-> GetItemOr(store, "dash-palette", "default")]

applyToDocument(attrs, th) ==
    SetItem(SetItem(attrs, "data-mode", th.mode), "data-palette", th.palette)

ToggledModeMutant(mode) == IF mode = "dark" THEN "dark" ELSE "light"

\* prev.mode === "dark" ? "light" : "dark"
ToggledMode(mode) == IF mode = "dark" THEN "light" ELSE "dark"

ThemeCall(op, arg) == [op |-> op, arg |-> arg, prev |-> theme, prevStorage |-> storage]

NoThemeCall == [op |-> "none", arg |-> "", prev |-> theme, prevStorage |-> storage]

\* toggleMode(), lines 39-48.
ToggleMode ==
    LET next == [theme EXCEPT !.mode = ToggledMode(theme.mode)] IN
    /\ storage' = SetItem(storage, "dash-mode", next.mode)
    /\ theme' = next
    /\ themeCall' = ThemeCall("toggleMode", "")
    /\ UNCHANGED <<docAttrs, connVars, helperVars, versionVars>>

\* setPalette(p), lines 50-56.
SetPalette(p) ==
    LET next == [theme EXCEPT !.palette = p] IN
    /\ storage' = SetItem(storage, "dash-palette", next.palette)
    /\ theme' = next
    /\ themeCall' = ThemeCall("setPalette", p)
    /\ UNCHANGED <<docAttrs, connVars, helperVars, versionVars>>

\* The effect of lines 35-37, run after a render in which theme changed.
ApplyThemeEffect ==
    /\ docAttrs # applyToDocument(docAttrs, theme)
    /\ docAttrs' = applyToDocument(docAttrs, theme)
    /\ UNCHANGED <<theme, storage, themeCall, connVars, helperVars, versionVars>>

\* ------------------------------------------------------------- inputs

Now0 == FiveDays + 1000

\* updated_at values around the five-day boundary, a future one, and a non-date.
Stamps(t) ==
    {DateString(t - FiveDays - 1), DateString(t - FiveDays), DateString(t - FiveDays + 1),
     DateString(t), DateString(t + 1000), NotADate}

PlainSession(id, upd) == Session(id, null, null, null, null, <<>>, <<>>, Array(<<>>), upd)

\* Session lists whose i-th session has the i-th id.
SplitInputs(t) ==
    UNION {[1..n -> Stamps(t)] : n \in 0..MaxSessions}

\* Session lists with distinct ids in any order.
StarInputs ==
    UNION {{f \in [1..n -> Ids] : \A i, j \in 1..n : i # j => f[i] # f[j]} : n \in 0..MaxSessions}

\* Group fields: absent, empty, the default's own name, plain names, names that
\* are array indices ("2", "10"), one that only looks numeric ("07"), and the
\* name of an inherited property.
GroupInputs ==
    {null, <<>>, General, <<"a", "p", "p">>, <<"w", "e", "b">>, <<"2">>, <<"1", "0">>,
     <<"0", "7">>, <<"c", "o", "n", "s", "t", "r", "u", "c", "t", "o", "r">>}

GroupSession(id, g) == Session(id, null, null, null, null, g, <<>>, Array(<<>>), DateString(Now0))

MaxTextLen == 2

MaxFilterSessions == 2

FilterChars == {"A", "SIGMA"}

Texts == UNION {[1..n -> FilterChars] : n \in 0..MaxTextLen}

\* The fields other than summary: all missing, or a mix of values, empty
\* strings and server names.
OtherFields ==
    {[repository |-> null, branch |-> null, cwd |-> null, group |-> <<>>,
      intent |-> <<>>, mcp_servers |-> NullArray],
     [repository |-> <<"A">>, branch |-> null, cwd |-> <<>>, group |-> General,
      intent |-> <<"a">>, mcp_servers |-> Array(<< <<"S", "a">>, <<>> >>)]}

FilterSession(id, summary, o) ==
    Session(id, summary, o.repository, o.branch, o.cwd, o.group, o.intent,
            o.mcp_servers, DateString(Now0))

ProcessInfo == [pid |-> 4242, yolo |-> FALSE]

\* The helpers are pure: the hook's state plays no part in their specifications.
VersionIdle ==
    /\ mounted = FALSE
    /\ versionInfo = InitialVersionInfo
    /\ updating = FALSE
    /\ timer = FALSE
    /\ requests = <<>>
    /\ lastInfo = <<>>
    /\ cycles = <<>>
    /\ escaped = {}

HelpersIdle ==
    /\ sessions = <<>>
    /\ processes = <<>>
    /\ starred = {}
    /\ filter = <<>>
    /\ now = 0
    /\ called = "none"
    /\ ret = <<>>

ConnIdle ==
    /\ disconnected = FALSE
    /\ retrySeconds = 0
    /\ probing = FALSE
    /\ failures = 0
    /\ probesSent = 0
    /\ connEvent = [kind |-> "init", wasDisconnected |-> FALSE, retryWas |-> 0, restarted |-> FALSE]

ThemeIdle ==
    /\ theme = readTheme(<<>>)
    /\ storage = <<>>
    /\ docAttrs = <<>>
    /\ themeCall = NoThemeCall

\* The hook after its first render and effect: mounted, the first doCheck() in
\* flight, the 30-minute interval set, no update asked for.
InitHook ==
    /\ mounted = TRUE
    /\ versionInfo = InitialVersionInfo
    /\ updating = FALSE
    /\ timer = TRUE
    /\ requests = <<"pending">>
    /\ lastInfo = <<>>
    /\ cycles = [c \in 1..MaxUpdates |-> UnusedCycle]
    /\ escaped = {}
    /\ HelpersIdle
    /\ ConnIdle
    /\ ThemeIdle

NoCall ==
    /\ called = "none"
    /\ ret = <<>>
    /\ VersionIdle
    /\ ConnIdle
    /\ ThemeIdle

\* ------------------------------------------------- SpecSplit

InitSplit ==
    /\ now = Now0
    /\ \E f \in SplitInputs(Now0) :
           sessions = [i \in 1..Len(f) |-> PlainSession(IdPool[i], f[i])]
    /\ \E d \in SUBSET Ids : processes = [id \in d |-> ProcessInfo]
    /\ starred = {}
    /\ filter = <<>>
    /\ NoCall

CallSplitActivePrevious ==
    /\ called = "none"
    /\ called' = "splitActivePrevious"
    /\ ret' = splitActivePrevious(sessions, processes, now)
    /\ UNCHANGED <<sessions, processes, starred, filter, now, versionVars, otherVars>>

NextSplit == CallSplitActivePrevious

SpecSplit == InitSplit /\ [][NextSplit]_vars

\* ------------------------------------------------- SpecStar

InitStar ==
    /\ now = Now0
    /\ \E f \in StarInputs :
           sessions = [i \in 1..Len(f) |-> PlainSession(f[i], DateString(Now0))]
    /\ processes = <<>>
    /\ starred \in SUBSET Ids
    /\ filter = <<>>
    /\ NoCall

CallSortStarredFirst ==
    /\ called = "none"
    /\ called' = "sortStarredFirst"
    /\ ret' = sortStarredFirst(sessions, starred)
    /\ UNCHANGED <<sessions, processes, starred, filter, now, versionVars, otherVars>>

NextStar == CallSortStarredFirst

SpecStar == InitStar /\ [][NextStar]_vars

\* ------------------------------------------------- SpecGroup

InitGroup ==
    /\ now = Now0
    /\ \E n \in 0..MaxSessions : \E f \in [1..n -> GroupInputs] :
           sessions = [i \in 1..n |-> GroupSession(IdPool[i], f[i])]
    /\ processes = <<>>
    /\ starred = {}
    /\ filter = <<>>
    /\ NoCall

CallGroupSessions ==
    /\ called = "none"
    /\ called' = "groupSessions"
    /\ ret' = groupSessions(sessions)
    /\ UNCHANGED <<sessions, processes, starred, filter, now, versionVars, otherVars>>

NextGroup == CallGroupSessions

SpecGroup == InitGroup /\ [][NextGroup]_vars

\* ------------------------------------------------- SpecFilter

InitFilter ==
    /\ now = Now0
    /\ \E n \in 0..MaxFilterSessions :
         \E f \in [1..n -> (Texts \cup {null}) \X OtherFields] :
           sessions = [i \in 1..n |-> FilterSession(IdPool[i], f[i][1], f[i][2])]
    /\ processes = <<>>
    /\ starred = {}
    /\ filter \in Texts
    /\ NoCall

CallFilterSessions ==
    /\ called = "none"
    /\ called' = "filterSessions"
    /\ ret' = filterSessions(sessions, filter)
    /\ UNCHANGED <<sessions, processes, starred, filter, now, versionVars, otherVars>>

NextFilter == CallFilterSessions

SpecFilter == InitFilter /\ [][NextFilter]_vars

\* ------------------------------------------------- SpecCheck
\* The periodic version check of the hook (lines 16-27).

NextCheck ==
    \/ CheckTick
    \/ \E r \in 1..Len(requests) : \E info \in Payloads : FetchVersionResolves(r, info)
    \/ \E r \in 1..Len(requests) : FetchVersionRejects(r)
    \/ Unmount

SpecCheck == InitHook /\ [][NextCheck]_vars

\* ------------------------------------------------- SpecUpdate
\* The update cycles of the hook (lines 29-50).  They share no state with the
\* version check but `mounted`.

NextUpdate ==
    \/ \E c \in 1..MaxUpdates : DoUpdate(c)
    \/ \E c \in 1..MaxUpdates : TriggerResolves(c)
    \/ \E c \in 1..MaxUpdates : TriggerRejects(c)
    \/ \E c \in 1..MaxUpdates : \E jitter \in {0, 1} : PollTick(c, jitter)
    \/ \E c \in 1..MaxUpdates : \E ok \in BOOLEAN : ProbeAnswered(c, ok)
    \/ \E c \in 1..MaxUpdates : ProbeFails(c)
    \/ Unmount

SpecUpdate == InitHook /\ [][NextUpdate]_vars

\* ------------------------------------------------- SpecConn
\* The connectivity monitor and its overlay.  Initially connected (the hook's
\* tests, hooks.test.ts lines 101-111).

InitConn ==
    /\ ConnIdle
    /\ ThemeIdle
    /\ VersionIdle
    /\ HelpersIdle

NextConn ==
    \/ IntervalProbe
    \/ LivenessProbeSucceeds
    \/ LivenessProbeFails
    \/ CountdownTick

SpecConn == InitConn /\ [][NextConn]_vars

\* ------------------------------------------------- SpecTheme
\* The theme hook after its first render and effect, over what the storage may
\* hold from earlier visits.

InitTheme ==
    /\ \E keys \in SUBSET {"dash-mode", "dash-palette"} :
         \E m \in Modes : \E p \in Palettes :
           storage = [k \in keys |-> IF k = "dash-mode" THEN m ELSE p]
    /\ theme = readTheme(storage)
    /\ docAttrs = applyToDocument(<<>>, theme)
    /\ themeCall = NoThemeCall
    /\ ConnIdle
    /\ VersionIdle
    /\ HelpersIdle

NextTheme ==
    \/ ToggleMode
    \/ \E p \in Palettes : SetPalette(p)
    \/ ApplyThemeEffect

SpecTheme == InitTheme /\ [][NextTheme]_vars

\* ------------------------------------------------------------ claims

InSeq(x, seq) == \E i \in 1..Len(seq) : seq[i] = x

SpecGroupOf(s) == IF s.group = null \/ Len(s.group) = 0 THEN General ELSE s.group

\* The position in the input at which a group key is first encountered.
FirstSeen(key) ==
    CHOOSE i \in 1..Len(sessions) :
        /\ SpecGroupOf(sessions[i]) = key
        /\ \A j \in 1..(i - 1) : SpecGroupOf(sessions[j]) # key

\* C3: for every session list (any group key strings), groupSessions returns a
\* set-partition of the input: each session is in exactly one group, namely the
\* group of its `group` field, or "General" when that is absent or empty; the
\* member counts add up to the input length; members keep their input order.
C3_GroupsPartitionInput ==
    called = "groupSessions" =>
        /\ ~ret.threw
        /\ LET out == ret.value
               total[k \in 0..Len(out)] ==
                   IF k = 0 THEN 0 ELSE total[k - 1] + Len(out[k][2])
           IN  /\ total[Len(out)] = Len(sessions)
               /\ \A i \in 1..Len(sessions) :
                     \E g \in 1..Len(out) :
                         /\ out[g][1] = SpecGroupOf(sessions[i])
                         /\ InSeq(sessions[i], out[g][2])
                         /\ \A h \in 1..Len(out) : InSeq(sessions[i], out[h][2]) => h = g
               /\ \A g \in 1..Len(out) : \A a, b \in 1..Len(out[g][2]) :
                     a < b => \E i, j \in 1..Len(sessions) :
                                 i < j /\ sessions[i] = out[g][2][a] /\ sessions[j] = out[g][2][b]

\* C4: in the list groupSessions returns, groups are in descending order of
\* member count: consecutive groups (k1,v1),(k2,v2) have len(v1) >= len(v2).
C4_GroupsDescendingBySize ==
    (called = "groupSessions" /\ ~ret.threw) =>
        \A g \in 1..(Len(ret.value) - 1) :
            Len(ret.value[g][2]) >= Len(ret.value[g + 1][2])

\* A smaller group first encountered before a larger one: the sort moves it back.
C4_Witness ==
    /\ called = "groupSessions"
    /\ ~ret.threw
    /\ Len(ret.value) = 2
    /\ Len(ret.value[1][2]) = 2
    /\ Len(ret.value[2][2]) = 1
    /\ FirstSeen(ret.value[2][1]) < FirstSeen(ret.value[1][1])

\* C5, as the specification states it: two groups with the same member count
\* appear in the order in which their keys were first encountered in the input,
\* for every choice of group keys (keys that look like integers included).
C5_TiesInFirstSeenOrder ==
    (called = "groupSessions" /\ ~ret.threw) =>
        \A g, h \in 1..Len(ret.value) :
            (g < h /\ Len(ret.value[g][2]) = Len(ret.value[h][2]))
                => FirstSeen(ret.value[g][1]) < FirstSeen(ret.value[h][1])

\* C5, amended: two groups with the same member count appear in property order:
\* groups whose key is an array index (the canonical decimal form of an integer)
\* come first, in ascending numeric order, and the other groups follow in the
\* order in which their keys were first encountered in the input.
C5_TiesInPropertyOrder ==
    (called = "groupSessions" /\ ~ret.threw) =>
        \A g, h \in 1..Len(ret.value) :
            (g < h /\ Len(ret.value[g][2]) = Len(ret.value[h][2])) =>
                LET a == ret.value[g][1]
                    b == ret.value[h][1]
                IN  IF IsArrayIndex(a) /\ IsArrayIndex(b) THEN DecimalValue(a) < DecimalValue(b)
                    ELSE IF IsArrayIndex(b) THEN FALSE
                    ELSE IF IsArrayIndex(a) THEN TRUE
                    ELSE FirstSeen(a) < FirstSeen(b)

\* Groups "app", "10", "2" of one member each, met in that order, come out as
\* "2", "10", "app".
C5_Witness ==
    /\ called = "groupSessions"
    /\ ~ret.threw
    /\ Len(sessions) = 3
    /\ sessions[1].group = <<"a", "p", "p">>
    /\ sessions[2].group = <<"1", "0">>
    /\ sessions[3].group = <<"2">>
    /\ ret.value = << <<(<<"2">>), <<sessions[3]>> >>,
                      <<(<<"1", "0">>), <<sessions[2]>> >>,
                      <<(<<"a", "p", "p">>), <<sessions[1]>> >> >>

\* t occurs in h as a run of consecutive characters.
IsSubstring(t, h) == \E u, v \in 0..Len(h) : u + Len(t) + v = Len(h) /\ SubSeq(h, u + 1, u + Len(t)) = t

\* The haystack as the specification words it: the non-empty values of summary,
\* repository, branch, cwd, group, intent and the MCP server names, each
\* lower-cased, separated by single spaces.
SpecHaystack(s) ==
    LET servers == IF s.mcp_servers.isNull THEN <<>> ELSE s.mcp_servers.items
        values == <<s.summary, s.repository, s.branch, s.cwd, s.group, s.intent>> \o servers
        NonEmpty(v) == v # null /\ Len(v) > 0
        kept == SelectSeq(values, NonEmpty)
        glue[k \in 0..Len(kept)] ==
            IF k = 0 THEN <<>>
            ELSE (IF k = 1 THEN <<>> ELSE glue[k - 1] \o <<" ">>) \o toLowerCase(kept[k])
    IN  glue[Len(kept)]

\* The sessions whose haystack contains the lower-cased query, in input order.
SpecMatches ==
    LET Hit(s) == IsSubstring(toLowerCase(filter), SpecHaystack(s))
    IN  SelectSeq(sessions, Hit)

\* C7, as the specification states it: filterSessions returns, in input order,
\* exactly the sessions whose haystack contains the lower-cased query; with an
\* empty query it returns the input unchanged; and any non-empty substring of
\* s.summary used as query keeps s.
C7_FilterKeepsEverySummarySubstring ==
    called = "filterSessions" =>
        /\ ret = SpecMatches
        /\ (Len(filter) = 0 => ret = sessions)
        /\ \A i \in 1..Len(sessions) :
              (/\ Len(filter) > 0
               /\ sessions[i].summary # null
               /\ IsSubstring(filter, sessions[i].summary)) => InSeq(sessions[i], ret)

\* C7, amended: as above, but a non-empty substring of s.summary used as query
\* is only certain to keep s when it contains no capital sigma, the letter
\* whose lower-case form depends on its neighbours.
C7_FilterMatchesHaystack ==
    called = "filterSessions" =>
        /\ ret = SpecMatches
        /\ (Len(filter) = 0 => ret = sessions)
        /\ \A i \in 1..Len(sessions) :
              (/\ Len(filter) > 0
               /\ \A k \in 1..Len(filter) : filter[k] # "SIGMA"
               /\ sessions[i].summary # null
               /\ IsSubstring(filter, sessions[i].summary)) => InSeq(sessions[i], ret)

\* Query "A" on two sessions: the first has it inside its summary "SIGMA A" and
\* is kept, the second has summary "SIGMA" and no other field, and is dropped.
C7_Witness ==
    /\ called = "filterSessions"
    /\ filter = <<"A">>
    /\ Len(sessions) = 2
    /\ sessions[1].summary = <<"SIGMA", "A">>
    /\ sessions[2].summary = <<"SIGMA">>
    /\ sessions[2].repository = null
    /\ ret = <<sessions[1]>>

\* C6: sortStarredFirst is a stable partition: every starred session precedes
\* every unstarred one, two sessions that are both starred or both unstarred
\* keep their input order, and the output is a permutation of the input.
C6_StablePartition ==
    called = "sortStarredFirst" =>
        LET pos(seq, s) == CHOOSE i \in 1..Len(seq) : seq[i] = s IN
        /\ Len(ret) = Len(sessions)
        /\ \A i \in 1..Len(sessions) : InSeq(sessions[i], ret)
        /\ \A i, j \in 1..Len(ret) :
              (ret[i].id \in starred /\ ret[j].id \notin starred) => i < j
        /\ \A i, j \in 1..Len(sessions) :
              (i < j /\ (sessions[i].id \in starred <=> sessions[j].id \in starred))
                  => pos(ret, sessions[i]) < pos(ret, sessions[j])

\* Input [x, y, z] with only z starred comes out as [z, x, y].
C6_Witness ==
    /\ called = "sortStarredFirst"
    /\ Len(sessions) = 3
    /\ starred \cap {sessions[i].id : i \in 1..3} = {sessions[3].id}
    /\ ret = <<sessions[3], sessions[1], sessions[2]>>

\* C8: while the hook is mounted, versionInfo is the payload of the version
\* fetch that resolved last, or {current: initialVersion, latest: null,
\* update_available: false} if none has; a rejected version fetch leaves
\* versionInfo unchanged and raises no error out of the hook.
C8_VersionInfoIsLastResolved ==
    /\ [](mounted =>
            versionInfo = IF lastInfo = <<>>
                             THEN [current |-> InitialVersion, latest |-> null,
                                   update_available |-> FALSE]
                             ELSE lastInfo[1])
    /\ []("doCheck" \notin escaped)
    /\ [][(\E r \in 1..Len(requests) : requests[r] = "pending" /\ requests'[r] = "rejected")
             => versionInfo' = versionInfo /\ escaped' = escaped]_vars

\* The second fetch resolved with an update available while the first is still
\* pending, and the third was rejected afterwards: versionInfo shows the update.
C8_Witness ==
    /\ mounted
    /\ requests = <<"pending", "resolved", "rejected">>
    /\ lastInfo # <<>>
    /\ versionInfo.update_available
    /\ versionInfo.latest = <<"2", ".", "0", ".", "0">>

\* C9: once doUpdate polls for readiness (a probe every 2 seconds), the first
\* successful response stops the polling (no probe is issued afterwards) and
\* reloads the page; a network error or a non-success response neither stops
\* the polling nor reloads, and the next tick within the 90 seconds issues the
\* next probe.
C9_ReadinessPolling ==
    /\ [](\A c \in 1..MaxUpdates :
            /\ cycles[c].okSeen => (~cycles[c].pollActive /\ cycles[c].reloaded)
            /\ ~cycles[c].okSeen => ~cycles[c].reloaded)
    /\ [][\A c \in 1..MaxUpdates :
            /\ cycles[c].okSeen => cycles'[c].inflight <= cycles[c].inflight
            /\ (cycles'[c].inflight < cycles[c].inflight /\ ~cycles'[c].okSeen)
                   => (/\ cycles'[c].pollActive = cycles[c].pollActive
                       /\ cycles'[c].ticks = cycles[c].ticks
                       /\ ~cycles'[c].reloaded)
            /\ (cycles[c].pollActive /\ cycles'[c].ticks = cycles[c].ticks + 1
                    /\ 2000 * cycles'[c].ticks < 90000)
                   => (cycles'[c].pollActive /\ cycles'[c].inflight = cycles[c].inflight + 1)
            /\ (cycles'[c].ticks = cycles[c].ticks + 1 /\ cycles'[c].pollActive)
                   => cycles'[c].inflight = cycles[c].inflight + 1]_vars

\* After three ticks, one probe failed, one is still unanswered, and one was
\* answered with success: the interval is cleared and the page reloads.
C9_Witness ==
    /\ cycles[1].ticks = 3
    /\ cycles[1].inflight = 1
    /\ cycles[1].okSeen
    /\ cycles[1].reloaded
    /\ ~cycles[1].pollActive
    /\ ~cycles[1].timedOut

\* C10: if 90 seconds pass after readiness polling began without a successful
\* response, polling stops (no further probe), `updating` is set to false, and
\* the page is not reloaded in that update cycle, whatever the interleaving of
\* timer ticks and probe responses.
C10_TimeoutEndsCycleWithoutReload ==
    \A c \in 1..MaxUpdates :
        /\ cycles[c].pollActive => 2000 * cycles[c].ticks <= 90000
        /\ cycles[c].timedOut =>
              /\ ~cycles[c].pollActive
              /\ ~cycles[c].reloaded
              /\ (mounted /\ \A d \in 1..MaxUpdates : d # c => cycles[d].phase = "unused")
                     => ~updating

\* C11: a successful probe leaves the monitor connected and the overlay not
\* rendered, from a disconnected state as from any other; the overlay is
\* rendered exactly when disconnected is true; initially disconnected is false
\* and retrySeconds is 0; a failed probe while disconnected restarts
\* retrySeconds at 5.
C11_ProbeOutcomes ==
    /\ connEvent.kind = "init" => (~disconnected /\ retrySeconds = 0)
    /\ connEvent.kind = "ok" =>
         (~disconnected /\ RetryLine(disconnected, retrySeconds) = "hidden")
    /\ OverlayRendered(disconnected) <=> disconnected
    /\ RetryLine(disconnected, retrySeconds) # "hidden" <=> disconnected
    /\ connEvent.kind = "fail" => (disconnected /\ retrySeconds = 5)

\* A probe succeeded in a disconnected state, after a probe had failed while
\* disconnected.
C11_Witness ==
    /\ connEvent.kind = "ok"
    /\ connEvent.wasDisconnected
    /\ connEvent.restarted

\* C12: while disconnected retrySeconds goes down by one per tick to 0 and never
\* below; the tick that reaches 0 issues exactly one probe, and until that probe
\* is answered there is neither a further decrement nor a further probe; the
\* overlay shows "Retrying now" exactly when disconnected and retrySeconds is 0.
C12_Countdown ==
    /\ [](retrySeconds \in 0..5)
    /\ [](RetryLine(disconnected, retrySeconds) = "Retrying now"
            <=> (disconnected /\ retrySeconds = 0))
    /\ [][connEvent'.kind = "tick" =>
            /\ disconnected /\ disconnected'
            /\ retrySeconds > 0
            /\ retrySeconds' = retrySeconds - 1]_vars
    /\ [][(disconnected /\ retrySeconds > 0 /\ retrySeconds' = 0) =>
            (~probing /\ probing' /\ probesSent' = probesSent + 1)]_vars
    /\ [][(disconnected /\ retrySeconds = 0) =>
            /\ probing
            /\ probesSent' = probesSent
            /\ connEvent'.kind \in {"ok", "fail"}]_vars

\* Three probes in a row have failed, the countdown has run down to 0 and the
\* one probe it issues is in flight.
C12_Witness ==
    /\ failures = 3
    /\ disconnected
    /\ retrySeconds = 0
    /\ probing
    /\ connEvent.kind = "tick"
    /\ connEvent.retryWas = 1

\* What the storage holds under a key, as a set: empty when the key is missing.
Stored(store, key) == IF key \in DOMAIN store THEN {store[key]} ELSE {}

\* C13: after any toggleMode and setPalette calls the value stored under
\* dash-mode and dash-palette equals the in-memory field (a field never written
\* and never stored has its default); toggleMode flips mode between dark and
\* light, writes it, and leaves palette and the stored palette as they were;
\* setPalette(p) sets palette to p, writes it, and leaves mode and the stored
\* mode as they were; with empty storage the theme is dark/default.
C13_ThemePersisted ==
    /\ Stored(storage, "dash-mode") \in {{theme.mode}, {}}
    /\ Stored(storage, "dash-palette") \in {{theme.palette}, {}}
    /\ storage = <<>> => theme = [mode |-> "dark", palette |-> "default"]
    /\ themeCall.op = "toggleMode" =>
         /\ {themeCall.prev.mode, theme.mode} = {"dark", "light"}
         /\ Stored(storage, "dash-mode") = {theme.mode}
         /\ theme.palette = themeCall.prev.palette
         /\ Stored(storage, "dash-palette") = Stored(themeCall.prevStorage, "dash-palette")
    /\ themeCall.op = "setPalette" =>
         /\ theme.palette = themeCall.arg
         /\ Stored(storage, "dash-palette") = {theme.palette}
         /\ theme.mode = themeCall.prev.mode
         /\ Stored(storage, "dash-mode") = Stored(themeCall.prevStorage, "dash-mode")

\* toggleMode() has just run after a palette was chosen, starting from empty
\* storage: both keys are written.
C13_Witness ==
    /\ themeCall.op = "toggleMode"
    /\ themeCall.prev = [mode |-> "dark", palette |-> "neon"]
    /\ themeCall.prevStorage = [k \in {"dash-palette"} |-> "neon"]
    /\ theme = [mode |-> "light", palette |-> "neon"]
    /\ storage = [k \in {"dash-mode", "dash-palette"} |-> IF k = "dash-mode" THEN "light" ELSE "neon"]

\* C14: once the hook is unmounted every interval it created is released: the
\* 30-minute version check and the 2-second readiness poll of each doUpdate,
\* so that no callback of theirs runs afterwards.
C14_UnmountReleasesEveryInterval ==
    ~mounted =>
        /\ ~timer
        /\ \A c \in 1..MaxUpdates : ~cycles[c].pollActive

\* C15: no failure of a network call leaves the hook's operations as an
\* exception or a rejected promise, and an update cycle whose trigger call
\* failed has reloaded the page or put updating back to false.
C15_FailuresBecomeTransitions ==
    /\ escaped = {}
    /\ \A c \in 1..MaxUpdates :
         cycles[c].phase = "failed" => (cycles[c].reloaded \/ ~updating)

====
